---------------------------- MODULE Spec2Model ----------------------------
(***************************************************************************)
(* Mendelian-inheritance statistics of allel/stats/mendel.py:              *)
(*   mendel_errors, paint_transmission, phase_progeny_by_transmission.     *)
(*                                                                         *)
(* A genotype array of shape (n_variants, n_samples, ploidy) is a sequence *)
(* of variants, each a sequence of calls, each a sequence of alleles; a    *)
(* haplotype array of shape (n_variants, n_haplotypes) is a sequence of    *)
(* rows of alleles.  Indices are 1-based here and 0-based in the source.   *)
(* A negative allele is the missing sentinel.                              *)
(***************************************************************************)
EXTENDS Integers, Sequences, FiniteSets

VARIABLES
    pc,                 \* "ready" | "done" | "raised" | "rephased"
    err,                \* "none" | "diploid_only" | "ValueError"
    parent_genotypes,   \* mendel_errors: argument, shape (n_variants, 2, 2)
    progeny_genotypes,  \* mendel_errors: argument, shape (n_variants, n_progeny, 2)
    me,                 \* mendel_errors: returned counts, shape (n_variants, n_progeny)
    parent_haplotypes,  \* paint_transmission: argument, shape (n_variants, 2)
    progeny_haplotypes, \* paint_transmission: argument, shape (n_variants, n_progeny)
    painting,           \* paint_transmission: returned states
    heap,               \* phaser: the arrays in memory; heap[1] is the caller's g
    copy,               \* phaser: the copy argument of the first call
    ret,                \* phaser: what the last call returned (array ref, is_phased)
    first_ret,          \* phaser: contents returned by the first of two calls
    g_before            \* phaser: contents of the caller's g before the first call

vars == <<pc, err, parent_genotypes, progeny_genotypes, me,
          parent_haplotypes, progeny_haplotypes, painting,
          heap, copy, ret, first_ret, g_before>>

(***************************************************************************)
(* Bounds of the input space.                                              *)
(***************************************************************************)
\* largest allele code of the exhaustively enumerated mendel_errors trios
MendelMaxAllele == 3
\* largest number of variants of the arrays built from sample rows
MaxRows == 2

(***************************************************************************)
(* Small numeric helpers (numpy reductions).                               *)
(***************************************************************************)
RECURSIVE SeqSum(_)
SeqSum(s) == IF s = <<>> THEN 0 ELSE Head(s) + SeqSum(Tail(s))

SetMax(S) == CHOOSE x \in S : \A y \in S : y <= x

\* ndarray.clip(max=hi) and ndarray.clip(min=lo) on one element
clip_max(x, hi) == IF x > hi THEN hi ELSE x
clip_min(x, lo) == IF x < lo THEN lo ELSE x

(***************************************************************************)
(* The genotype container (allel.model.ndarray.GenotypeArray).             *)
(***************************************************************************)
ploidy(g) == Len(g[1][1])
n_samples(g) == Len(g[1])

\* GenotypeArray.max(): the largest entry of the whole array
array_max(g) ==
    SetMax({g[i][j][k] : i \in 1..Len(g), j \in 1..Len(g[1]), k \in 1..Len(g[1][1])})

\* GenotypeArray.to_allele_counts(alleles=...): per call, the number of
\* entries equal to each listed allele; missing entries match no allele
to_allele_counts(g, alleles) ==
    [i \in 1..Len(g) |->
        [j \in 1..Len(g[i]) |->
            [a \in 1..Len(alleles) |->
                Cardinality({k \in 1..Len(g[i][j]) : g[i][j][k] = alleles[a]})]]]

\* GenotypeArray.is_missing(): a call is missing iff any entry is negative
is_missing(g) ==
    [i \in 1..Len(g) |->
        [j \in 1..Len(g[i]) |-> \E k \in 1..Len(g[i][j]) : g[i][j][k] < 0]]

(***************************************************************************)
(* mendel_errors                                                           *)
(***************************************************************************)
\* lines 189-190: the allele universe 0..max_allele (empty when all missing)
allele_universe(parents, progeny) ==
    LET pm == array_max(parents)
        cm == array_max(progeny)
        max_allele == IF pm >= cm THEN pm ELSE cm
    IN  [a \in 1..(max_allele + 1) |-> a - 1]

\* line 197: per variant and allele, each parent's count clipped to 1 and
\* summed over the parents axis
max_progeny_gc(parent_gc) ==
    [i \in 1..Len(parent_gc) |->
        [a \in 1..Len(parent_gc[i][1]) |->
            SeqSum([p \in 1..Len(parent_gc[i]) |-> clip_max(parent_gc[i][p][a], 1)])]]

\* variant: the progeny counts are clipped to 1 before the subtraction
base_errors_progeny_clipped(progeny_gc, avail) ==
    [i \in 1..Len(progeny_gc) |->
        [j \in 1..Len(progeny_gc[i]) |->
            SeqSum([a \in 1..Len(progeny_gc[i][j]) |->
                clip_min(clip_max(progeny_gc[i][j][a], 1) - avail[i][a], 0)])]]

\* line 199: progeny copies in excess of the availability, summed over alleles
base_errors(progeny_gc, avail) ==
    [i \in 1..Len(progeny_gc) |->
        [j \in 1..Len(progeny_gc[i]) |->
            SeqSum([a \in 1..Len(progeny_gc[i][j]) |->
                clip_min(progeny_gc[i][j][a] - avail[i][a], 0)])]]

\* lines 204-208: variants where no allele is carried by both parents
no_shared_alleles(parent_gc) ==
    [i \in 1..Len(parent_gc) |->
        ~ \E a \in 1..Len(parent_gc[i][1]) :
            parent_gc[i][1][a] > 0 /\ parent_gc[i][2][a] > 0]

\* variant: the no_shared_alleles condition is left out of the index
uniparental_without_shared_test(m, parent_gc, progeny_gc) ==
    [i \in 1..Len(m) |->
        [j \in 1..Len(m[i]) |->
            IF \/ progeny_gc[i][j] = parent_gc[i][1]
               \/ progeny_gc[i][j] = parent_gc[i][2]
            THEN 1 ELSE m[i][j]]]

\* variant: only the comparison with parent 1 is made
uniparental_first_parent_only(m, parent_gc, progeny_gc) ==
    [i \in 1..Len(m) |->
        [j \in 1..Len(m[i]) |->
            IF /\ no_shared_alleles(parent_gc)[i]
               /\ progeny_gc[i][j] = parent_gc[i][1]
            THEN 1 ELSE m[i][j]]]

\* lines 210-212: force 1 where the parents share no allele and the progeny
\* allele counts equal those of parent 1 or of parent 2
uniparental(m, parent_gc, progeny_gc) ==
    [i \in 1..Len(m) |->
        [j \in 1..Len(m[i]) |->
            IF /\ no_shared_alleles(parent_gc)[i]
               /\ \/ progeny_gc[i][j] = parent_gc[i][1]
                  \/ progeny_gc[i][j] = parent_gc[i][2]
            THEN 1 ELSE m[i][j]]]

\* variant: only the first parent is tested for a missing call
retrofit_missing_first_parent_only(m, parents) ==
    [i \in 1..Len(m) |->
        [j \in 1..Len(m[i]) |->
            IF is_missing(parents)[i][1] THEN 0 ELSE m[i][j]]]

\* line 215: zero every row where any parent call is missing
retrofit_missing(m, parents) ==
    [i \in 1..Len(m) |->
        [j \in 1..Len(m[i]) |->
            IF \E p \in 1..Len(parents[i]) : is_missing(parents)[i][p]
            THEN 0 ELSE m[i][j]]]

\* lines 182-217
mendel_errors(parents, progeny) ==
    IF ploidy(parents) # 2 \/ ploidy(progeny) # 2
    THEN [err |-> "diploid_only", me |-> <<>>]
    ELSE
        LET alleles == allele_universe(parents, progeny)
            parent_gc == to_allele_counts(parents, alleles)
            progeny_gc == to_allele_counts(progeny, alleles)
            m0 == base_errors(progeny_gc, max_progeny_gc(parent_gc))
            m1 == uniparental(m0, parent_gc, progeny_gc)
            m2 == retrofit_missing(m1, parents)
        IN  [err |-> "none", me |-> m2]

(***************************************************************************)
(* Inputs of mendel_errors.                                                *)
(***************************************************************************)
Calls(maxAllele, pl) == [1..pl -> -1..maxAllele]

\* every (1 variant, 2 parents + 1 progeny) diploid trio over -1..MendelMaxAllele
MendelTrios ==
    { [parents |-> <<<<p1, p2>>>>, progeny |-> <<<<c>>>>] :
        p1 \in Calls(MendelMaxAllele, 2), p2 \in Calls(MendelMaxAllele, 2),
        c \in Calls(MendelMaxAllele, 2) }

\* variant rows with two progeny, after the docstring's examples
MendelRows ==
    { [parents |-> <<<<0, 0>>, <<0, 0>>>>,   progeny |-> <<<<0, 0>>, <<-1, -1>>>>],
      [parents |-> <<<<0, 0>>, <<0, 0>>>>,   progeny |-> <<<<0, 1>>, <<1, 1>>>>],
      [parents |-> <<<<0, 0>>, <<0, 1>>>>,   progeny |-> <<<<1, 1>>, <<0, 1>>>>],
      [parents |-> <<<<0, 0>>, <<1, 1>>>>,   progeny |-> <<<<0, 0>>, <<1, 0>>>>],
      [parents |-> <<<<0, 1>>, <<2, 3>>>>,   progeny |-> <<<<0, 1>>, <<2, 4>>>>],
      [parents |-> <<<<-1, -1>>, <<0, 0>>>>, progeny |-> <<<<1, 1>>, <<0, 0>>>>],
      [parents |-> <<<<0, 1>>, <<1, -1>>>>,  progeny |-> <<<<2, 2>>, <<0, 1>>>>],
      [parents |-> <<<<-1, -1>>, <<-1, -1>>>>, progeny |-> <<<<-1, 5>>, <<-1, -1>>>>] }

\* arrays of 2..MaxRows variants whose rows are drawn from MendelRows
MendelStacks ==
    UNION { { [parents |-> [i \in 1..n |-> rows[i].parents],
               progeny |-> [i \in 1..n |-> rows[i].progeny]] :
              rows \in [1..n -> MendelRows] } : n \in 2..MaxRows }

\* arrays whose ploidy is not 2
MendelNonDiploid ==
    { [parents |-> <<<<p1, p2>>>>, progeny |-> <<<<c>>>>] :
        p1 \in Calls(0, 1), p2 \in Calls(0, 1), c \in Calls(0, 1) }
    \cup
    { [parents |-> <<<<p1, p1>>>>, progeny |-> <<<<c>>>>] :
        p1 \in Calls(0, 2), c \in Calls(0, 3) }

MendelInputs == MendelTrios \cup MendelStacks \cup MendelNonDiploid

InitMendel ==
    /\ pc = "ready"
    /\ err = "none"
    /\ \E x \in MendelInputs :
          /\ parent_genotypes = x.parents
          /\ progeny_genotypes = x.progeny
    /\ me = <<>>
    /\ parent_haplotypes = <<>>
    /\ progeny_haplotypes = <<>>
    /\ painting = <<>>
    /\ heap = <<>>
    /\ copy = FALSE
    /\ ret = <<>>
    /\ first_ret = <<>>
    /\ g_before = <<>>

CallMendelErrors ==
    /\ pc = "ready"
    /\ parent_genotypes # <<>>
    /\ LET r == mendel_errors(parent_genotypes, progeny_genotypes)
       IN  /\ err' = r.err
           /\ me' = r.me
           /\ pc' = IF r.err = "none" THEN "done" ELSE "raised"
    /\ UNCHANGED <<parent_genotypes, progeny_genotypes,
                   parent_haplotypes, progeny_haplotypes, painting,
                   heap, copy, ret, first_ret, g_before>>

NextMendel == CallMendelErrors

SpecMendel == InitMendel /\ [][NextMendel]_vars

(***************************************************************************)
(* paint_transmission                                                      *)
(***************************************************************************)
\* lines 221-228
INHERIT_UNDETERMINED == 0
INHERIT_PARENT1 == 1
INHERIT_PARENT2 == 2
INHERIT_NONSEG_REF == 3
INHERIT_NONSEG_ALT == 4
INHERIT_NONPARENTAL == 5
INHERIT_PARENT_MISSING == 6
INHERIT_MISSING == 7

\* bounds of the paint_transmission inputs: largest allele code and number
\* of progeny haplotypes of the exhaustively enumerated one-variant arrays
PaintMaxAllele == 2
PaintProgeny == 2

\* HaplotypeArray.n_haplotypes
n_haplotypes(h) == Len(h[1])

\* GenotypeArray.is_hom_ref(): every entry is the reference allele 0
is_hom_ref(g) ==
    [i \in 1..Len(g) |->
        [j \in 1..Len(g[i]) |-> \A k \in 1..Len(g[i][j]) : g[i][j][k] = 0]]

\* GenotypeArray.is_het(): every entry called and some entry differs from
\* the first
is_het(g) ==
    [i \in 1..Len(g) |->
        [j \in 1..Len(g[i]) |->
            /\ \A k \in 1..Len(g[i][j]) : g[i][j][k] >= 0
            /\ \E k \in 2..Len(g[i][j]) : g[i][j][k] # g[i][j][1]]]

\* GenotypeArray.is_hom_alt(): every entry is the same non-reference allele
is_hom_alt(g) ==
    [i \in 1..Len(g) |->
        [j \in 1..Len(g[i]) |->
            /\ \A k \in 1..Len(g[i][j]) : g[i][j][k] > 0
            /\ \A k \in 2..Len(g[i][j]) : g[i][j][k] = g[i][j][1]]]

\* line 289
progeny_is_missing(progeny) ==
    [i \in 1..Len(progeny) |->
        [j \in 1..Len(progeny[i]) |->
            progeny[i][j] < 0]]

\* line 290: per variant, any parental haplotype allele missing
parent_is_missing(parent) ==
    [i \in 1..Len(parent) |-> \E h \in 1..Len(parent[i]) : parent[i][h] < 0]

\* line 293: the parental haplotypes as one diploid call per variant
parent_diplotype(parent) == [i \in 1..Len(parent) |-> <<parent[i]>>]

\* line 299
is_callable(parent, progeny) ==
    [i \in 1..Len(progeny) |->
        [j \in 1..Len(progeny[i]) |->
            /\ ~progeny_is_missing(progeny)[i][j]
            /\ ~parent_is_missing(parent)[i]]]

\* line 300
is_callable_seg(parent, progeny) ==
    [i \in 1..Len(progeny) |->
        [j \in 1..Len(progeny[i]) |->
            /\ is_callable(parent, progeny)[i][j]
            /\ is_het(parent_diplotype(parent))[i][1]]]

\* line 303
inherit_parent1(parent, progeny) ==
    [i \in 1..Len(progeny) |->
        [j \in 1..Len(progeny[i]) |->
            /\ is_callable_seg(parent, progeny)[i][j]
            /\ progeny[i][j] = parent[i][1]]]

\* line 304
inherit_parent2(parent, progeny) ==
    [i \in 1..Len(progeny) |->
        [j \in 1..Len(progeny[i]) |->
            /\ is_callable_seg(parent, progeny)[i][j]
            /\ progeny[i][j] = parent[i][2]]]

\* lines 305-309
nonseg_ref(parent, progeny) ==
    [i \in 1..Len(progeny) |->
        [j \in 1..Len(progeny[i]) |->
            /\ is_callable(parent, progeny)[i][j]
            /\ is_hom_ref(parent_diplotype(parent))[i][1]
            /\ progeny[i][j] = parent[i][1]]]

\* variant: parent_is_hom_ref is tested where parent_is_hom_alt is meant
nonseg_alt_hom_ref_test(parent, progeny) ==
    [i \in 1..Len(progeny) |->
        [j \in 1..Len(progeny[i]) |->
            /\ is_callable(parent, progeny)[i][j]
            /\ is_hom_ref(parent_diplotype(parent))[i][1]
            /\ progeny[i][j] = parent[i][1]]]

\* lines 310-314
nonseg_alt(parent, progeny) ==
    [i \in 1..Len(progeny) |->
        [j \in 1..Len(progeny[i]) |->
            /\ is_callable(parent, progeny)[i][j]
            /\ is_hom_alt(parent_diplotype(parent))[i][1]
            /\ progeny[i][j] = parent[i][1]]]

\* lines 315-319
nonparental(parent, progeny) ==
    [i \in 1..Len(progeny) |->
        [j \in 1..Len(progeny[i]) |->
            /\ is_callable(parent, progeny)[i][j]
            /\ progeny[i][j] # parent[i][1]
            /\ progeny[i][j] # parent[i][2]]]

\* painting[mask] = state, mask of the painting's shape
Assign(p, mask, state) ==
    [i \in 1..Len(p) |->
        [j \in 1..Len(p[i]) |-> IF mask[i][j] THEN state ELSE p[i][j]]]

\* painting[rows] = state, a boolean index over the variants axis
AssignRows(p, rows, state) ==
    [i \in 1..Len(p) |->
        [j \in 1..Len(p[i]) |-> IF rows[i] THEN state ELSE p[i][j]]]

\* variant: the last two assignments are exchanged
record_states_progeny_before_parent(parent, progeny) ==
    LET p0 == [i \in 1..Len(progeny) |->
                  [j \in 1..Len(progeny[i]) |-> INHERIT_UNDETERMINED]]
        p1 == Assign(p0, inherit_parent1(parent, progeny), INHERIT_PARENT1)
        p2 == Assign(p1, inherit_parent2(parent, progeny), INHERIT_PARENT2)
        p3 == Assign(p2, nonseg_ref(parent, progeny), INHERIT_NONSEG_REF)
        p4 == Assign(p3, nonseg_alt(parent, progeny), INHERIT_NONSEG_ALT)
        p5 == Assign(p4, nonparental(parent, progeny), INHERIT_NONPARENTAL)
        p6 == Assign(p5, progeny_is_missing(progeny), INHERIT_MISSING)
        p7 == AssignRows(p6, parent_is_missing(parent), INHERIT_PARENT_MISSING)
    IN  p7

\* lines 323-330: the states are recorded in this order, later ones winning
record_states(parent, progeny) ==
    LET p0 == [i \in 1..Len(progeny) |->
                  [j \in 1..Len(progeny[i]) |-> INHERIT_UNDETERMINED]]
        p1 == Assign(p0, inherit_parent1(parent, progeny), INHERIT_PARENT1)
        p2 == Assign(p1, inherit_parent2(parent, progeny), INHERIT_PARENT2)
        p3 == Assign(p2, nonseg_ref(parent, progeny), INHERIT_NONSEG_REF)
        p4 == Assign(p3, nonseg_alt(parent, progeny), INHERIT_NONSEG_ALT)
        p5 == Assign(p4, nonparental(parent, progeny), INHERIT_NONPARENTAL)
        p6 == AssignRows(p5, parent_is_missing(parent), INHERIT_PARENT_MISSING)
        p7 == Assign(p6, progeny_is_missing(progeny), INHERIT_MISSING)
    IN  p7

\* lines 280-332
paint_transmission(parent, progeny) ==
    IF n_haplotypes(parent) # 2
    THEN [err |-> "ValueError", painting |-> <<>>]
    ELSE [err |-> "none", painting |-> record_states(parent, progeny)]

(***************************************************************************)
(* Inputs of paint_transmission.                                           *)
(***************************************************************************)
HapRows(maxAllele, n) == [1..n -> -1..maxAllele]

\* every one-variant input with two parental and PaintProgeny progeny
\* haplotypes over -1..PaintMaxAllele
PaintSingles ==
    { [parent |-> <<ph>>, progeny |-> <<ch>>] :
        ph \in HapRows(PaintMaxAllele, 2), ch \in HapRows(PaintMaxAllele, PaintProgeny) }

\* variant rows after the docstring's example (four progeny haplotypes)
PaintRows ==
    { [parent |-> <<0, 0>>,   progeny |-> <<0, 1, 2, -1>>],
      [parent |-> <<0, 1>>,   progeny |-> <<0, 1, 2, -1>>],
      [parent |-> <<1, 0>>,   progeny |-> <<0, 1, 2, -1>>],
      [parent |-> <<1, 1>>,   progeny |-> <<0, 1, 2, -1>>],
      [parent |-> <<0, 2>>,   progeny |-> <<0, 1, 2, -1>>],
      [parent |-> <<0, -1>>,  progeny |-> <<0, 1, 2, -1>>],
      [parent |-> <<-1, 1>>,  progeny |-> <<0, 1, 2, -1>>],
      [parent |-> <<-1, -1>>, progeny |-> <<0, 1, 2, -1>>],
      [parent |-> <<2, 2>>,   progeny |-> <<2, 2, 0, 1>>] }

\* arrays of 2..MaxRows variants whose rows are drawn from PaintRows
PaintStacks ==
    UNION { { [parent |-> [i \in 1..n |-> rows[i].parent],
               progeny |-> [i \in 1..n |-> rows[i].progeny]] :
              rows \in [1..n -> PaintRows] } : n \in 2..MaxRows }

\* inputs with one or three parental haplotypes
PaintWrongCount ==
    { [parent |-> <<ph>>, progeny |-> <<ch>>] :
        ph \in HapRows(1, 1) \cup HapRows(0, 3), ch \in HapRows(1, 1) }

PaintInputs == PaintSingles \cup PaintStacks \cup PaintWrongCount

InitPaint ==
    /\ pc = "ready"
    /\ err = "none"
    /\ \E x \in PaintInputs :
          /\ parent_haplotypes = x.parent
          /\ progeny_haplotypes = x.progeny
    /\ painting = <<>>
    /\ parent_genotypes = <<>>
    /\ progeny_genotypes = <<>>
    /\ me = <<>>
    /\ heap = <<>>
    /\ copy = FALSE
    /\ ret = <<>>
    /\ first_ret = <<>>
    /\ g_before = <<>>

CallPaintTransmission ==
    /\ pc = "ready"
    /\ parent_haplotypes # <<>>
    /\ LET r == paint_transmission(parent_haplotypes, progeny_haplotypes)
       IN  /\ err' = r.err
           /\ painting' = r.painting
           /\ pc' = IF r.err = "none" THEN "done" ELSE "raised"
    /\ UNCHANGED <<parent_genotypes, progeny_genotypes, me,
                   parent_haplotypes, progeny_haplotypes,
                   heap, copy, ret, first_ret, g_before>>

NextPaint == CallPaintTransmission

SpecPaint == InitPaint /\ [][NextPaint]_vars

(***************************************************************************)
(* phase_progeny_by_transmission                                           *)
(*                                                                         *)
(* Arrays live in a heap so that phasing in place and phasing a copy can   *)
(* be told apart: an object is [dtype, data], a reference is its index.    *)
(***************************************************************************)
\* largest allele code of the exhaustively enumerated phaser trios
PhaseMaxAllele == 2

Carrier(call, a) == \E k \in 1..Len(call) : call[k] = a

\* variant: a consistent ordering is taken without testing that it is the only one
phase_call_any_consistent(p1, p2, c) ==
    LET missing == \E k \in 1..2 : p1[k] < 0 \/ p2[k] < 0 \/ c[k] < 0
        rev == <<c[2], c[1]>>
    IN  IF missing THEN [call |-> c, phased |-> FALSE]
        ELSE IF Carrier(p1, rev[1]) /\ Carrier(p2, rev[2])
             THEN [call |-> rev, phased |-> TRUE]
        ELSE IF Carrier(p1, c[1]) /\ Carrier(p2, c[2])
             THEN [call |-> c, phased |-> TRUE]
        ELSE [call |-> c, phased |-> FALSE]

\* the phasing rule for one progeny call c under parental calls p1, p2
\* (allel.opt.stats.phase_progeny_by_transmission_int8, inner loop): with
\* no missing allele in the trio, enumerate the orderings of the progeny
\* alleles and keep those giving parent 1 the first and parent 2 the
\* second; exactly one consistent ordering phases the call to it
phase_call(p1, p2, c) ==
    LET missing == \E k \in 1..2 : p1[k] < 0 \/ p2[k] < 0 \/ c[k] < 0
        candidates == { <<c[1], c[2]>>, <<c[2], c[1]>> }
        consistent == { o \in candidates : Carrier(p1, o[1]) /\ Carrier(p2, o[2]) }
    IN  IF ~missing /\ Cardinality(consistent) = 1
        THEN [call |-> CHOOSE o \in consistent : TRUE, phased |-> TRUE]
        ELSE [call |-> c, phased |-> FALSE]

\* allel.opt.stats.phase_progeny_by_transmission_int8: phases the array in
\* place; parents are samples 1 and 2, never marked phased
phase_progeny_by_transmission_int8(data) ==
    LET cell(i, j) == IF j <= 2 THEN [call |-> data[i][j], phased |-> FALSE]
                      ELSE phase_call(data[i][1], data[i][2], data[i][j])
    IN  [g |-> [i \in 1..Len(data) |-> [j \in 1..Len(data[i]) |-> cell(i, j).call]],
         is_phased |->
              [i \in 1..Len(data) |-> [j \in 1..Len(data[i]) |-> cell(i, j).phased]]]

\* a value stored as int8 (numpy wraps on conversion)
as_int8(v) == ((v + 128) % 256) - 128

\* variant: the copy is made but g keeps naming the caller's array
copy_step_result_discarded(h, ref, cp) ==
    IF cp THEN [heap |-> Append(h, h[ref]), ref |-> ref]
    ELSE [heap |-> h, ref |-> ref]

\* lines 419-420: g = g.copy() when copy is requested
copy_step(h, ref, cp) ==
    IF cp THEN [heap |-> Append(h, h[ref]), ref |-> Len(h) + 1]
    ELSE [heap |-> h, ref |-> ref]

\* line 423: g = g.astype('i1', copy=False): the same object when it is
\* int8 already, a converted new one otherwise
astype_i1(h, ref) ==
    IF h[ref].dtype = "i1" THEN [heap |-> h, ref |-> ref]
    ELSE [heap |-> Append(h, [dtype |-> "i1",
                              data |-> [i \in 1..Len(h[ref].data) |->
                                         [j \in 1..Len(h[ref].data[i]) |->
                                           [k \in 1..Len(h[ref].data[i][j]) |->
                                              as_int8(h[ref].data[i][j][k])]]]]),
          ref |-> Len(h) + 1]

\* variant: the kernel is handed a temporary array and g is returned as it was
run_phasing_on_temporary(h, ref) ==
    LET k == phase_progeny_by_transmission_int8(h[ref].data)
    IN  [err |-> "none",
         heap |-> Append(h, [dtype |-> "i1", data |-> k.g]),
         g |-> ref, is_phased |-> k.is_phased]

\* lines 426-430: the kernel phases object ref in place; g and is_phased
\* (viewed as booleans) are returned
run_phasing(h, ref) ==
    LET k == phase_progeny_by_transmission_int8(h[ref].data)
    IN  [err |-> "none",
         heap |-> [h EXCEPT ![ref].data = k.g],
         g |-> ref, is_phased |-> k.is_phased]

\* lines 408-430; GenotypeArray(g) of line 409 wraps the caller's array
\* without copying it, so ref keeps naming the caller's object; the checks
\* of lines 410-416 come before any allocation or write
phase_progeny_by_transmission(h, ref, cp) ==
    IF ploidy(h[ref].data) # 2
    THEN [err |-> "diploid_only", heap |-> h, g |-> 0, is_phased |-> <<>>]
    ELSE IF n_samples(h[ref].data) < 3
    THEN [err |-> "ValueError", heap |-> h, g |-> 0, is_phased |-> <<>>]
    ELSE
        LET c == copy_step(h, ref, cp)
            a == astype_i1(c.heap, c.ref)
        IN  run_phasing(a.heap, a.ref)

(***************************************************************************)
(* Inputs of phase_progeny_by_transmission.                                *)
(***************************************************************************)
\* every (1 variant, 2 parents + 1 progeny) diploid trio over -1..PhaseMaxAllele
PhaseTrios ==
    { <<<<p1, p2, c>>>> :
        p1 \in Calls(PhaseMaxAllele, 2), p2 \in Calls(PhaseMaxAllele, 2),
        c \in Calls(PhaseMaxAllele, 2) }

\* variant rows with two progeny, after the docstring's example
PhaseRows ==
    { << <<0, 0>>, <<0, 0>>, <<0, 0>>, <<1, 1>> >>,
      << <<0, 0>>, <<1, 1>>, <<0, 1>>, <<1, 0>> >>,
      << <<1, 1>>, <<0, 0>>, <<0, 1>>, <<-1, -1>> >>,
      << <<0, 0>>, <<0, 1>>, <<0, 0>>, <<0, 1>> >>,
      << <<0, 1>>, <<0, 1>>, <<0, 1>>, <<1, 1>> >>,
      << <<1, 2>>, <<0, 1>>, <<1, 2>>, <<0, 2>> >>,
      << <<2, 3>>, <<0, 1>>, <<1, 3>>, <<3, 0>> >>,
      << <<0, -1>>, <<0, 0>>, <<0, 0>>, <<0, 1>> >> }

\* arrays of 2..MaxRows variants whose rows are drawn from PhaseRows
PhaseStacks == UNION { [1..n -> PhaseRows] : n \in 2..MaxRows }

\* arrays failing a precondition: two samples only, or ploidy 1 or 3
PhaseRejected ==
    { <<<<p1, p2>>>> : p1 \in Calls(1, 2), p2 \in Calls(1, 2) }
    \cup { <<<<p1, p1, c>>>> : p1 \in Calls(0, 1), c \in Calls(1, 1) }
    \cup { <<<<p1, p1>>>> : p1 \in Calls(1, 1) }
    \cup { <<<<p1, p1, c>>>> : p1 \in Calls(0, 3), c \in Calls(0, 3) }

PhaseInputs == PhaseTrios \cup PhaseStacks \cup PhaseRejected

InitPhase ==
    /\ pc = "ready"
    /\ err = "none"
    /\ g_before \in PhaseInputs
    /\ \E dt \in {"i1", "i8"} : heap = << [dtype |-> dt, data |-> g_before] >>
    /\ copy \in BOOLEAN
    /\ ret = <<>>
    /\ first_ret = <<>>
    /\ parent_genotypes = <<>>
    /\ progeny_genotypes = <<>>
    /\ me = <<>>
    /\ parent_haplotypes = <<>>
    /\ progeny_haplotypes = <<>>
    /\ painting = <<>>

\* the caller phases its array heap[1] with the chosen copy flag
CallPhase ==
    /\ pc = "ready"
    /\ heap # <<>>
    /\ LET r == phase_progeny_by_transmission(heap, 1, copy)
       IN  /\ err' = r.err
           /\ heap' = r.heap
           /\ ret' = IF r.err = "none"
                     THEN [g |-> r.g, is_phased |-> r.is_phased] ELSE <<>>
           /\ pc' = IF r.err = "none" THEN "done" ELSE "raised"
    /\ UNCHANGED <<parent_genotypes, progeny_genotypes, me, parent_haplotypes,
                   progeny_haplotypes, painting, copy, first_ret, g_before>>

\* the caller phases the returned array once more, in copy mode
CallPhaseAgain ==
    /\ pc = "done"
    /\ heap # <<>>
    /\ LET r == phase_progeny_by_transmission(heap, ret.g, TRUE)
       IN  /\ err' = r.err
           /\ heap' = r.heap
           /\ ret' = [g |-> r.g, is_phased |-> r.is_phased]
           /\ first_ret' = [g |-> heap[ret.g].data, is_phased |-> ret.is_phased]
           /\ pc' = "rephased"
    /\ UNCHANGED <<parent_genotypes, progeny_genotypes, me, parent_haplotypes,
                   progeny_haplotypes, painting, copy, g_before>>

NextPhase == CallPhase \/ CallPhaseAgain

SpecPhase == InitPhase /\ [][NextPhase]_vars

(***************************************************************************)
(* Properties of mendel_errors, stated per (variant, progeny) cell on the  *)
(* genotype calls themselves.                                              *)
(***************************************************************************)
CallMissing(call) == \E k \in 1..Len(call) : call[k] < 0
Carries(call, a) == \E k \in 1..Len(call) : call[k] = a
CopiesOf(call, a) == Cardinality({k \in 1..Len(call) : call[k] = a})
\* number of parents carrying at least one copy of allele a
Availability(p1, p2, a) ==
    (IF Carries(p1, a) THEN 1 ELSE 0) + (IF Carries(p2, a) THEN 1 ELSE 0)
SubsetOfAvailability(p1, p2, c) ==
    \A k \in 1..Len(c) :
        c[k] >= 0 => CopiesOf(c, c[k]) <= Availability(p1, p2, c[k])
\* one progeny allele from parent 1 and the other from parent 2
Transmissible(p1, p2, c) ==
    \/ Carries(p1, c[1]) /\ Carries(p2, c[2])
    \/ Carries(p1, c[2]) /\ Carries(p2, c[1])
SameAlleles(c, p) ==
    \/ c[1] = p[1] /\ c[2] = p[2]
    \/ c[1] = p[2] /\ c[2] = p[1]
ShareNoAllele(p1, p2) == ~ \E k \in 1..Len(p1) : Carries(p2, p1[k])
UniparentalCall(p1, p2, c) ==
    /\ ~CallMissing(p1) /\ ~CallMissing(p2)
    /\ ShareNoAllele(p1, p2)
    /\ SameAlleles(c, p1) \/ SameAlleles(c, p2)

MendelDone == pc = "done" /\ parent_genotypes # <<>>
MendelCells ==
    { <<i, j>> : i \in 1..Len(progeny_genotypes), j \in 1..Len(progeny_genotypes[1]) }
P1(i) == parent_genotypes[i][1]
P2(i) == parent_genotypes[i][2]
Child(i, j) == progeny_genotypes[i][j]

\* C1: where either parent's call has a missing allele, every progeny of
\* that variant gets error count 0, whatever the progeny call is.
C1_ParentMissingZero ==
    MendelDone =>
        \A x \in MendelCells :
            (CallMissing(P1(x[1])) \/ CallMissing(P2(x[1]))) => me[x[1]][x[2]] = 0

\* C1 witness: parent 2 is missing, parent 1 is not, the progeny call is
\* complete and carries an allele parent 1 lacks; the count is 0.
C1_Witness ==
    /\ MendelDone
    /\ \E x \in MendelCells :
          /\ CallMissing(P2(x[1])) /\ ~CallMissing(P1(x[1]))
          /\ ~CallMissing(Child(x[1], x[2]))
          /\ ~Carries(P1(x[1]), Child(x[1], x[2])[1])
          /\ me[x[1]][x[2]] = 0

\* C2: with no missing allele in the trio, the count is 0 iff the progeny
\* alleles can be assigned one to each parent, and at least 1 otherwise.
C2_ZeroIffTransmissible ==
    MendelDone =>
        \A x \in MendelCells :
            LET p1 == P1(x[1])  p2 == P2(x[1])  c == Child(x[1], x[2])
            IN  (~CallMissing(p1) /\ ~CallMissing(p2) /\ ~CallMissing(c)) =>
                    /\ (me[x[1]][x[2]] = 0) <=> Transmissible(p1, p2, c)
                    /\ ~Transmissible(p1, p2, c) => me[x[1]][x[2]] >= 1

\* C2 witness: a complete trio whose heterozygous progeny call takes both
\* alleles from parent 1 while parent 2 carries neither; the count is 1.
C2_Witness ==
    /\ MendelDone
    /\ \E x \in MendelCells :
          LET p1 == P1(x[1])  p2 == P2(x[1])  c == Child(x[1], x[2])
          IN  /\ ~CallMissing(p1) /\ ~CallMissing(p2) /\ ~CallMissing(c)
              /\ c[1] # c[2]
              /\ Carries(p1, c[1]) /\ Carries(p1, c[2])
              /\ ~Carries(p2, c[1]) /\ ~Carries(p2, c[2])
              /\ me[x[1]][x[2]] = 1

\* C3 as stated: a progeny call whose allele multiset is within the
\* parental availability vector always gets count 0.
C3_SubsetZero_Original ==
    MendelDone =>
        \A x \in MendelCells :
            SubsetOfAvailability(P1(x[1]), P2(x[1]), Child(x[1], x[2]))
                => me[x[1]][x[2]] = 0

\* C3 amended: a progeny call within the parental availability vector gets
\* count 0 unless it is a uniparental call (both parents complete, sharing
\* no allele, progeny allele counts identical to one parent's).
C3_SubsetZeroUnlessUniparental ==
    MendelDone =>
        \A x \in MendelCells :
            LET p1 == P1(x[1])  p2 == P2(x[1])  c == Child(x[1], x[2])
            IN  (SubsetOfAvailability(p1, p2, c) /\ ~UniparentalCall(p1, p2, c))
                    => me[x[1]][x[2]] = 0

\* C3 witness: a complete trio with a homozygous progeny call within the
\* availability vector (both parents carry the allele); the count is 0.
C3_Witness ==
    /\ MendelDone
    /\ \E x \in MendelCells :
          LET p1 == P1(x[1])  p2 == P2(x[1])  c == Child(x[1], x[2])
          IN  /\ ~CallMissing(p1) /\ ~CallMissing(p2) /\ ~CallMissing(c)
              /\ c[1] = c[2]
              /\ p1[1] # p1[2]
              /\ SubsetOfAvailability(p1, p2, c)
              /\ ~UniparentalCall(p1, p2, c)
              /\ me[x[1]][x[2]] = 0

\* C4: where both parents are complete and share no allele, a progeny call
\* with the allele counts of parent 1 or of parent 2 gets count exactly 1.
C4_UniparentalOne ==
    MendelDone =>
        \A x \in MendelCells :
            UniparentalCall(P1(x[1]), P2(x[1]), Child(x[1], x[2]))
                => me[x[1]][x[2]] = 1

\* C4 witness: heterozygous parent 2, no shared allele, progeny call equal
\* to parent 2 up to order; the count is 1.
C4_Witness ==
    /\ MendelDone
    /\ \E x \in MendelCells :
          LET p1 == P1(x[1])  p2 == P2(x[1])  c == Child(x[1], x[2])
          IN  /\ UniparentalCall(p1, p2, c)
              /\ p2[1] # p2[2]
              /\ c = <<p2[2], p2[1]>>
              /\ me[x[1]][x[2]] = 1

\* C5 as stated: every progeny call with a missing allele gets count 0,
\* whatever the parents are.
C5_MissingProgenyZero ==
    MendelDone =>
        \A x \in MendelCells :
            CallMissing(Child(x[1], x[2])) => me[x[1]][x[2]] = 0

(***************************************************************************)
(* Properties of paint_transmission, stated per (variant, progeny          *)
(* haplotype) cell on the haplotype alleles themselves.                    *)
(***************************************************************************)
PaintDone == pc = "done" /\ parent_haplotypes # <<>>
PaintCells ==
    { <<i, j>> : i \in 1..Len(progeny_haplotypes), j \in 1..Len(progeny_haplotypes[1]) }

\* the state the fixed priority order prescribes for progeny allele a under
\* parental haplotype alleles h1, h2
PrescribedState(h1, h2, a) ==
    IF a < 0 THEN 7
    ELSE IF h1 < 0 \/ h2 < 0 THEN 6
    ELSE IF a # h1 /\ a # h2 THEN 5
    ELSE IF h1 = h2 /\ h1 > 0 THEN 4
    ELSE IF h1 = h2 /\ h1 = 0 THEN 3
    ELSE IF a = h2 THEN 2
    ELSE 1

\* C6: every cell holds the highest-priority matching state: 7 progeny
\* missing, else 6 parent missing, else 5 non-parental, else 4 / 3 parent
\* homozygous non-reference / reference, else 2 / 1 second / first haplotype.
C6_PaintingPriority ==
    PaintDone =>
        \A x \in PaintCells :
            /\ painting[x[1]][x[2]] \in 0..7
            /\ painting[x[1]][x[2]] =
                  PrescribedState(parent_haplotypes[x[1]][1], parent_haplotypes[x[1]][2],
                                  progeny_haplotypes[x[1]][x[2]])

\* C6 witness: a missing progeny allele under a missing parental allele is
\* painted 7, and a non-parental allele under a homozygous parent 5.
C6_Witness ==
    /\ PaintDone
    /\ \E x \in PaintCells :
          /\ progeny_haplotypes[x[1]][x[2]] < 0
          /\ parent_haplotypes[x[1]][1] < 0
          /\ painting[x[1]][x[2]] = 7
    /\ \E x \in PaintCells :
          /\ parent_haplotypes[x[1]][1] = parent_haplotypes[x[1]][2]
          /\ parent_haplotypes[x[1]][1] >= 0
          /\ progeny_haplotypes[x[1]][x[2]] >= 0
          /\ progeny_haplotypes[x[1]][x[2]] # parent_haplotypes[x[1]][1]
          /\ painting[x[1]][x[2]] = 5

\* C10: with exactly two parental haplotypes no cell is left at the default
\* state 0: every cell is in 1..7.
C10_NeverUndetermined ==
    PaintDone =>
        \A x \in PaintCells : painting[x[1]][x[2]] \in 1..7

\* C10 witness: a painting whose cells are all match states, with a cell
\* painted 4 under a homozygous non-reference parent and a cell painted 2
\* under a heterozygous parent.
C10_Witness ==
    /\ PaintDone
    /\ \E x \in PaintCells : painting[x[1]][x[2]] = 4
    /\ \E x \in PaintCells : painting[x[1]][x[2]] = 2

(***************************************************************************)
(* Properties of phase_progeny_by_transmission, stated per (variant,       *)
(* progeny) call on the caller's array as it was before the call.          *)
(***************************************************************************)
PhaseReturned == pc = "done" /\ heap # <<>>
Returned == heap[ret.g].data
ProgenyCells ==
    { <<i, j>> : i \in 1..Len(g_before), j \in 3..Len(g_before[1]) }
\* the progeny call read in the given order gives parent 1 its first and
\* parent 2 its second allele
Forward(p1, p2, c) == Carries(p1, c[1]) /\ Carries(p2, c[2])
Backward(p1, p2, c) == Carries(p1, c[2]) /\ Carries(p2, c[1])
\* exactly one ordering of the progeny alleles is consistent
UniqueOrdering(p1, p2, c) ==
    /\ ~CallMissing(p1) /\ ~CallMissing(p2) /\ ~CallMissing(c)
    /\ \/ c[1] = c[2] /\ Forward(p1, p2, c)
       \/ c[1] # c[2] /\ Forward(p1, p2, c) /\ ~Backward(p1, p2, c)
       \/ c[1] # c[2] /\ Backward(p1, p2, c) /\ ~Forward(p1, p2, c)

\* C7: a progeny call is marked phased exactly when the trio has no missing
\* allele and exactly one ordering (x, y) of its alleles has x carried by
\* parent 1 and y by parent 2, and then the returned call is (x, y); every
\* other call is marked unphased and returned in its original order.
C7_PhasedIffUniqueOrdering ==
    PhaseReturned =>
        \A x \in ProgenyCells :
            LET p1 == g_before[x[1]][1]
                p2 == g_before[x[1]][2]
                c == g_before[x[1]][x[2]]
                out == Returned[x[1]][x[2]]
            IN  /\ ret.is_phased[x[1]][x[2]] <=> UniqueOrdering(p1, p2, c)
                /\ UniqueOrdering(p1, p2, c) =>
                      /\ Carries(p1, out[1]) /\ Carries(p2, out[2])
                      /\ out = c \/ out = <<c[2], c[1]>>
                /\ ~UniqueOrdering(p1, p2, c) => out = c

\* C7 witness: a heterozygous progeny call whose only consistent ordering
\* is the reverse of the given one is returned swapped and marked phased.
C7_Witness ==
    /\ PhaseReturned
    /\ \E x \in ProgenyCells :
          LET c == g_before[x[1]][x[2]]
          IN  /\ c[1] # c[2]
              /\ Returned[x[1]][x[2]] = <<c[2], c[1]>>
              /\ ret.is_phased[x[1]][x[2]]

\* C8: in copy mode, phasing the array returned by a first application
\* returns the same genotype array and the same is_phased array.
C8_Idempotent ==
    (pc = "rephased" /\ copy) =>
        /\ Returned = first_ret.g
        /\ ret.is_phased = first_ret.is_phased

\* C8 witness: a second copy-mode application after a first one that
\* reordered a call and marked it phased.
C8_Witness ==
    /\ pc = "rephased" /\ copy
    /\ \E x \in ProgenyCells :
          /\ first_ret.g[x[1]][x[2]] # g_before[x[1]][x[2]]
          /\ first_ret.is_phased[x[1]][x[2]]
          /\ ret.is_phased[x[1]][x[2]]

\* C9: with copy=True the caller's array keeps every entry it had before
\* the call, on normal return and on a failed precondition; a failed
\* precondition allocates no copy, and reorderings appear only in the
\* returned array, which is another object.
C9_CopyLeavesCallerArray ==
    (copy /\ heap # <<>> /\ pc # "ready") =>
        /\ heap[1].data = g_before
        /\ pc = "raised" => heap = << [dtype |-> heap[1].dtype, data |-> g_before] >>
        /\ pc = "done" => ret.g # 1

\* C9 witness: a copy-mode call that returned an array with a reordered
\* call while the caller's int8 array still holds the original order.
C9_Witness ==
    /\ copy /\ pc = "done" /\ heap # <<>>
    /\ heap[1].dtype = "i1"
    /\ Returned # g_before
    /\ heap[1].data = g_before

=============================================================================
